---- MODULE Spec2Model ----
(***************************************************************************)
(* Model of the MaxaMem document-generation backend                        *)
(* (src/maxamem/backend/src/main.rs): the Orchestrator's eight-stage       *)
(* pipeline, generate_agent_files / generate_directory_docs, and the       *)
(* GitHubService scaffolder.                                               *)
(*                                                                         *)
(* Three specifications share the variables:                               *)
(*   Spec          concurrent start_generation calls (the pipeline)        *)
(*   SpecScaffold  one create_directory_structure call over N files        *)
(*   SpecAgents    generate_agent_files applied to bounded schemas         *)
(***************************************************************************)
EXTENDS Integers, Sequences, FiniteSets, TLC

(***************************************************************************)
(* Bounds                                                                  *)
(***************************************************************************)
\* number of start_generation calls that may be issued (they may overlap)
MaxCalls == 2
\* longest file list handed to create_directory_structure in SpecScaffold
MaxFiles == 21

\* files.chunks(10)
BatchSize == 10
\* Duration::from_millis(100)
SleepMillis == 100

\* Option: None, Some(x). Result: Err, Ok(x)
None == [ none |-> TRUE ]
Some(x) == [ some |-> x ]
Err == [ err |-> TRUE ]
Ok(x) == [ ok |-> x ]

NoProject == "none"

Calls == 1..MaxCalls

\* projects rows present in the store, and one id with no row
Projects == {"p1", "p2"}
MissingProject == "p0"

(***************************************************************************)
(* GenerationStep, in declaration order, and the document kind each of the *)
(* steps 1..7 saves (process_generation).                                  *)
(***************************************************************************)
GenerationStep ==
    << "DevPlan", "Architecture", "Blueprint", "Readme", "DirectoryTree",
       "CommunicationSchema", "AgentFiles", "GitHubScaffold" >>

\* DocKind with a fault: the agent files are saved under the kind "schema"
DocKindAgentsAsSchema ==
    << "dev_plan", "architecture", "blueprint", "readme", "tree", "schema", "schema" >>

\* the kind each step saves its output under
DocKind ==
    << "dev_plan", "architecture", "blueprint", "readme", "tree", "schema", "agents" >>

NumSteps == Len(GenerationStep)
NumDocs == Len(DocKind)

\* StageInputs with a fault: the schema stage is handed readme for tree
StageInputsReadmeForTree ==
    << <<0>>, <<1>>, <<1, 2>>, <<1, 2, 3>>, <<3>>, <<1, 2, 3, 4>>, <<6>> >>

\* the locals of process_generation each stage function is called with:
\* 0 stands for user_prompt, k for the output of step k
StageInputs ==
    << <<0>>, <<1>>, <<1, 2>>, <<1, 2, 3>>, <<3>>, <<1, 2, 3, 5>>, <<6>> >>

JobStatus == {"Pending", "Processing", "Completed", "Failed"}

(***************************************************************************)
(* Schema model: CommunicationSchema / DirectoryConfig / FileConfig.       *)
(* A path is a sequence of characters; a HashMap is a function, and the    *)
(* order in which the code iterates it is an input (a sequence that        *)
(* enumerates its keys once each).                                         *)
(***************************************************************************)
\* most directories in one schema, and longest directory path, explored
MaxDirs == 2
MaxPathLen == 2

U8Max == 255
CriticalBand == 9
ImportantBand == 7

PathChars == {"s", "/"}

DirPaths == UNION { [1..n -> PathChars] : n \in 1..MaxPathLen }

Range(f) == { f[x] : x \in DOMAIN f }

\* the sequences that enumerate the set S once each: the orders a HashMap
\* with key set S can be iterated in
IterOrders(S) ==
    { o \in [1..Cardinality(S) -> S] : \A i, j \in DOMAIN o : o[i] = o[j] => i = j }

\* struct FileConfig
FileConfig(crit, type, purpose) ==
    [ criticality |-> crit, file_type |-> type, purpose |-> purpose,
      dependencies |-> <<>>, communicates |-> None,
      triggers |-> None, modifies |-> None ]

\* struct DirectoryConfig
DirectoryConfig(crit, descr, files) ==
    [ criticality |-> crit, description |-> descr, files |-> files,
      directories |-> None, receives_from |-> None, sends_to |-> None,
      protocols |-> None ]

\* str::trim_end_matches('/')
RECURSIVE trim_end_matches(_)
trim_end_matches(p) ==
    IF p = <<>> THEN <<>>
    ELSE IF p[Len(p)] = "/" THEN trim_end_matches(SubSeq(p, 1, Len(p) - 1))
    ELSE p

\* Vec::sort_by(|a, b| b.1.criticality.cmp(&a.1.criticality)): a stable sort,
\* descending by criticality, of the (name, file) pairs in iteration order.
\* Written as a stable insertion sort over the names.
RECURSIVE InsertByCriticality(_, _, _)
InsertByCriticality(sorted, name, files) ==
    IF sorted = <<>> THEN <<name>>
    ELSE IF files[Head(sorted)].criticality >= files[name].criticality
         THEN <<Head(sorted)>> \o InsertByCriticality(Tail(sorted), name, files)
         ELSE <<name>> \o sorted

RECURSIVE sort_by_criticality(_, _)
sort_by_criticality(names, files) ==
    IF names = <<>> THEN <<>>
    ELSE InsertByCriticality(
             sort_by_criticality(SubSeq(names, 1, Len(names) - 1), files),
             names[Len(names)], files)

\* build_relationships(&dir_config.files): for every file its dependency and
\* communicates-with relations
build_relationships(files) ==
    [ n \in DOMAIN files |->
        [ dependencies |-> files[n].dependencies,
          communicates |-> IF files[n].communicates = None THEN {}
                           ELSE DOMAIN files[n].communicates.some ] ]

\* .filter(|(_, f)| f.criticality >= 9)
InCriticalBand(c) == c >= CriticalBand

\* InImportantBand with a fault: the upper limit of the band is missing
InImportantBandNoUpper(c) == c >= ImportantBand

\* .filter(|(_, f)| f.criticality >= 7 && f.criticality < 9)
InImportantBand(c) == c >= ImportantBand /\ c < CriticalBand

\* .filter(|(_, f)| f.criticality < 7)
InSupportingBand(c) == c < ImportantBand

\* event_flows_get with a fault: the key is looked up without its trailing
\* slashes
event_flows_get_trimmed(schema, dir_path) ==
    IF trim_end_matches(dir_path) \in DOMAIN schema.event_flows
    THEN Some(schema.event_flows[trim_end_matches(dir_path)])
    ELSE None

\* schema.event_flows.get(dir_path): the flows under exactly this key
event_flows_get(schema, dir_path) ==
    IF dir_path \in DOMAIN schema.event_flows
    THEN Some(schema.event_flows[dir_path])
    ELSE None

\* Orchestrator::generate_directory_docs. fileOrder is the iteration order of
\* dir_config.files. The rendered text is kept as a record of its sections.
generate_directory_docs(dir_path, dir_config, schema, fileOrder) ==
    LET files == sort_by_criticality(fileOrder, dir_config.files)
        crit(n) == dir_config.files[n].criticality
        IsCritical(n) == InCriticalBand(crit(n))
        IsImportant(n) == InImportantBand(crit(n))
        IsSupporting(n) == InSupportingBand(crit(n))
        Detail(n) == [ name |-> n, criticality |-> crit(n),
                       file_type |-> dir_config.files[n].file_type,
                       purpose |-> dir_config.files[n].purpose,
                       communicates |-> dir_config.files[n].communicates,
                       dependencies |-> dir_config.files[n].dependencies ]
        Line(n) == [ name |-> n, criticality |-> crit(n),
                     purpose |-> dir_config.files[n].purpose ]
        critical == SelectSeq(files, IsCritical)
        important == SelectSeq(files, IsImportant)
        supporting == SelectSeq(files, IsSupporting)
    IN  [ header |-> << dir_path, dir_config.description, dir_config.criticality >>,
          critical |-> [ i \in DOMAIN critical |-> Detail(critical[i]) ],
          important |-> [ i \in DOMAIN important |-> Line(important[i]) ],
          supporting |-> IF \E n \in Range(files) : IsSupporting(n)
                         THEN Some([ i \in DOMAIN supporting |-> Line(supporting[i]) ])
                         ELSE None,
          patterns |-> << dir_config.receives_from, dir_config.sends_to,
                          dir_config.protocols >>,
          relationships |-> build_relationships(dir_config.files),
          event_flows |-> event_flows_get(schema, dir_path) ]

\* struct AgentFile
AgentFile(path, content) == [ path |-> path, content |-> content ]

\* format!("{}/README.md", dir_path.trim_end_matches('/'))
ReadmePath(dir_path) == trim_end_matches(dir_path) \o << "/", "README.md" >>
\* format!("{}/AGENT.md", dir_path.trim_end_matches('/'))
AgentPath(dir_path) == trim_end_matches(dir_path) \o << "/", "AGENT.md" >>

\* AgentFilesOfDir with a fault: the AGENT.md push is missing
AgentFilesOfDirReadmeOnly(dir_path, content) ==
    << AgentFile(ReadmePath(dir_path), content) >>

\* the two pushes of one iteration of the loop of generate_agent_files
AgentFilesOfDir(dir_path, content) ==
    << AgentFile(ReadmePath(dir_path), content),
       AgentFile(AgentPath(dir_path), content) >>

\* the loop of generate_agent_files over schema.directory_structure.iter(),
\* taken in the order dirOrder; fileOrder[d] is the iteration order of the
\* files of directory d
RECURSIVE AgentFilesLoop(_, _, _)
AgentFilesLoop(schema, dirOrder, fileOrder) ==
    IF dirOrder = <<>> THEN <<>>
    ELSE LET d == Head(dirOrder)
         IN  AgentFilesOfDir(d, generate_directory_docs(
                                    d, schema.directory_structure[d], schema,
                                    fileOrder[d]))
             \o AgentFilesLoop(schema, Tail(dirOrder), fileOrder)

(***************************************************************************)
(* The schema text. serde_json::from_str::<CommunicationSchema> fails on   *)
(* text that is not JSON or lacks a required field (wellformed = FALSE)    *)
(* and on a criticality that is no u8.                                     *)
(***************************************************************************)
SchemaText(wellformed, schema) == [ wellformed |-> wellformed, value |-> schema ]

IsU8(n) == n \in 0..U8Max

\* from_str_ok with a fault: every text is taken as a schema
from_str_ok_lenient(text) == TRUE

\* serde_json::from_str::<CommunicationSchema>(text) returns Ok
from_str_ok(text) ==
    /\ text.wellformed
    /\ \A d \in DOMAIN text.value.directory_structure :
          LET dc == text.value.directory_structure[d]
          IN  /\ IsU8(dc.criticality)
              /\ \A f \in DOMAIN dc.files : IsU8(dc.files[f].criticality)

\* Orchestrator::generate_agent_files: Err when the text does not parse,
\* otherwise Ok of the Vec<AgentFile> built by the loop
generate_agent_files(text, dirOrder, fileOrder) ==
    IF ~from_str_ok(text) THEN Err
    ELSE Ok(AgentFilesLoop(text.value, dirOrder, fileOrder))

(***************************************************************************)
(* State                                                                   *)
(***************************************************************************)
VARIABLES
    pc,              \* pc[c]: the await the call c of start_generation is at
    proj,            \* proj[c]: its project_id
    step,            \* step[c]: index in GenerationStep of the stage it is in
    out,             \* out[c][k]: the locals dev_plan .. agents of process_generation
    failure,         \* failure[c]: the Err the call returned, or None
    log,             \* log[c]: the external calls c has made, in order
    cds,             \* cds[c]: files and loop position of create_directory_structure
    docs,            \* the document store: rows [project_id, kind, content]
    jobs,            \* the job queue
    project_status,  \* project_status[p]: status column of the projects row
    repos,           \* repos[name]: whether the repository exists, and its commits
    ag,              \* SpecAgents: input and result of generate_agent_files
    codec,           \* SpecCodec: a schema, its serialisation and what parses back
    ps               \* SpecProjects: the projects table and the last call on it

vars == << pc, proj, step, out, failure, log, cds, docs, jobs, project_status,
           repos, ag, codec, ps >>

pipelineVars == << pc, proj, step, out, failure, log, cds, docs, jobs,
                   project_status, repos, codec, ps >>

(***************************************************************************)
(* What the providers return. The text a stage returns is identified by    *)
(* the stage and the run; the CommunicationSchema stage returns either     *)
(* text that does not parse or the JSON of a schema.                       *)
(***************************************************************************)
\* one directory "s/" with one file "main" at criticality 9
ExampleSchema ==
    [ directory_structure |->
          ( <<"s", "/">> :> DirectoryConfig(5, "source", 
                                ("main" :> FileConfig(9, "rust", "entry"))) ),
      event_flows |-> << >> ]

\* a schema whose directory_structure is empty
EmptySchema == [ directory_structure |-> << >>, event_flows |-> << >> ]

SchemaShapes == {"malformed", "one_dir", "empty_dirs"}

ProviderText(k, c, shape) == [ stage |-> GenerationStep[k], run |-> c, shape |-> shape ]

\* the text a provider may return to call c in stage k
ProviderTexts(k, c) ==
    IF GenerationStep[k] = "CommunicationSchema"
    THEN { ProviderText(k, c, sh) : sh \in SchemaShapes }
    ELSE { ProviderText(k, c, "text") }

\* the schema text as generate_agent_files reads it
SchemaTextOf(text) ==
    IF text.shape = "one_dir" THEN SchemaText(TRUE, ExampleSchema)
    ELSE IF text.shape = "empty_dirs" THEN SchemaText(TRUE, EmptySchema)
    ELSE SchemaText(FALSE, EmptySchema)

\* a HashMap with at most one key has one iteration order
SingleOrder(f) == CHOOSE o \in IterOrders(DOMAIN f) : TRUE

UserPrompt(c) == [ stage |-> "prompt", run |-> c, shape |-> "text" ]

\* the arguments process_generation passes to the stage function of step k
StageArgs(c, k) ==
    [ i \in DOMAIN StageInputs[k] |->
        IF StageInputs[k][i] = 0 THEN UserPrompt(c) ELSE out[c][StageInputs[k][i]] ]

Event(op, k, ok, arg) == [ op |-> op, step |-> k, ok |-> ok, arg |-> arg ]

NoOutputs == [ k \in 1..NumDocs |-> None ]
NoCds == [ files |-> <<>>, chunk |-> 0, pos |-> 0 ]

(***************************************************************************)
(* Init: no call has been issued, the store holds the projects rows as     *)
(* create_project inserts them ("pending"), no document, no repository.    *)
(***************************************************************************)
NoDocuments == {}

\* no schema has been serialised
CodecIdle == [ input |-> None, text |-> None, result |-> None ]

\* the projects table is empty and no call has been made on it
PsIdle == [ rows |-> << >>, last |-> None ]

AgIdle == [ text |-> None, dirOrder |-> <<>>, fileOrder |-> <<>>, result |-> None ]

NoRepo == [ exists |-> FALSE, files |-> <<>> ]

Init ==
    /\ pc = [ c \in Calls |-> "idle" ]
    /\ proj = [ c \in Calls |-> NoProject ]
    /\ step = [ c \in Calls |-> 0 ]
    /\ out = [ c \in Calls |-> NoOutputs ]
    /\ failure = [ c \in Calls |-> None ]
    /\ log = [ c \in Calls |-> <<>> ]
    /\ cds = [ c \in Calls |-> NoCds ]
    /\ docs = NoDocuments
    /\ jobs = <<>>
    /\ project_status = [ p \in Projects |-> "pending" ]
    /\ repos = [ p \in Projects |-> NoRepo ]
    /\ codec = CodecIdle
    /\ ps = PsIdle
    /\ ag = AgIdle

\* Fail with a fault: the Err is noted and the failed call is made again
FailAndRetry(c, op, error) ==
    /\ pc' = pc
    /\ failure' = [ failure EXCEPT ![c] = [ step |-> step[c], op |-> op, error |-> error ] ]

\* Fail with a fault: the Err of the owner lookup is noted and the call
\* goes on to queue the job
FailOwnerLookupIgnored(c, op, error) ==
    /\ pc' = [ pc EXCEPT ![c] = IF op = "get_project_owner" THEN "queue_job" ELSE "err" ]
    /\ failure' = [ failure EXCEPT ![c] = [ step |-> step[c], op |-> op, error |-> error ] ]

\* `?`: the call returns the Err
Fail(c, op, error) ==
    /\ pc' = [ pc EXCEPT ![c] = "err" ]
    /\ failure' = [ failure EXCEPT ![c] = [ step |-> step[c], op |-> op, error |-> error ] ]

Logged(c, ev) == log' = [ log EXCEPT ![c] = Append(@, ev) ]

(***************************************************************************)
(* Orchestrator::start_generation                                          *)
(***************************************************************************)
\* the caller invokes start_generation(project_id, user_prompt), for any
\* project id, while earlier calls may still be running
StartGeneration(c) ==
    /\ pc[c] = "idle"
    /\ \E p \in Projects \cup {MissingProject} :
          proj' = [ proj EXCEPT ![c] = p ]
    /\ pc' = [ pc EXCEPT ![c] = "get_project_owner" ]
    /\ UNCHANGED << step, out, failure, log, cds, docs, jobs, project_status, repos, ag, codec, ps >>

\* user_id: self.get_project_owner(project_id).await?
GetProjectOwner(c) ==
    /\ pc[c] = "get_project_owner"
    /\ \/ /\ proj[c] \in Projects
          /\ pc' = [ pc EXCEPT ![c] = "queue_job" ]
          /\ UNCHANGED failure
       \/ Fail(c, "get_project_owner", "PersistenceError")
    /\ Logged(c, Event("get_project_owner", 0, pc'[c] # "err", proj[c]))
    /\ UNCHANGED << proj, step, out, cds, docs, jobs, project_status, repos, ag, codec, ps >>

\* the GenerationJob built by start_generation
NewJob(c) ==
    [ id |-> c, project_id |-> proj[c], step |-> GenerationStep[1], status |-> "Pending" ]

\* self.queue_job(job).await?
queue_job(queue, job) == Append(queue, job)

\* StatusAtStart with a fault: starting a run puts the project back to pending
StatusAtStartReset(table, project_id) == [ table EXCEPT ![project_id] = "pending" ]

\* what start_generation does to the status of the project: nothing
StatusAtStart(table, project_id) == table

\* self.queue_job(job).await?; then self.process_generation(..) is entered
QueueJob(c) ==
    /\ pc[c] = "queue_job"
    /\ project_status' = StatusAtStart(project_status, proj[c])
    /\ \/ /\ jobs' = queue_job(jobs, NewJob(c))
          /\ pc' = [ pc EXCEPT ![c] = "generate" ]
          /\ step' = [ step EXCEPT ![c] = 1 ]
          /\ UNCHANGED failure
       \/ /\ Fail(c, "queue_job", "PersistenceError")
          /\ UNCHANGED << jobs, step >>
    /\ Logged(c, Event("queue_job", 0, pc'[c] # "err", proj[c]))
    /\ UNCHANGED << proj, out, cds, docs, repos, ag, codec, ps >>

(***************************************************************************)
(* Orchestrator::process_generation                                        *)
(***************************************************************************)
\* the stage function of step k, called with StageArgs(c, k): the provider
\* calls of steps 1..6, and generate_agent_files for step 7. The set of
\* Results it may return.
StageResults(c, k) ==
    IF GenerationStep[k] = "AgentFiles"
    THEN LET text == SchemaTextOf(out[c][6])
             r == generate_agent_files(
                      text,
                      SingleOrder(text.value.directory_structure),
                      [ d \in DOMAIN text.value.directory_structure |->
                          SingleOrder(text.value.directory_structure[d].files) ])
         IN  { IF r = Err THEN Err ELSE Ok([ agents |-> r.ok ]) }
    ELSE { Ok(t) : t \in ProviderTexts(k, c) } \cup { Err }

\* NextStep with a fault: a stage is skipped
NextStepSkipsOne(k) == IF k = 1 THEN k + 2 ELSE k + 1

\* the step that follows step k in process_generation
NextStep(k) == k + 1

\* AfterSave with a fault: the status is updated without scaffolding
AfterSaveSkipsScaffold(k) ==
    IF NextStep(k) <= NumDocs THEN "generate" ELSE "update_project_status"

\* where process_generation goes once the document of step k is saved
AfterSave(k) == IF NextStep(k) <= NumDocs THEN "generate" ELSE "get_project_name"

\* the content process_generation hands to save_document in step k
\* (step 7: serde_json::to_string(&agents))
SavedContent(c, k) ==
    IF GenerationStep[k] = "AgentFiles" THEN [ json |-> out[c][k].agents ]
    ELSE out[c][k]

\* the rows of the store under the key (project_id, kind)
RowsOf(store, project_id, kind) ==
    { r \in store : r.project_id = project_id /\ r.kind = kind }

\* the document read back under the key (project_id, kind)
Doc(store, project_id, kind) ==
    IF RowsOf(store, project_id, kind) = {} THEN None
    ELSE (CHOOSE r \in RowsOf(store, project_id, kind) : TRUE).content

\* save_document with a fault: a plain insert, the old row is kept
SaveDocumentInsert(store, project_id, kind, content) ==
    store \cup { [ project_id |-> project_id, kind |-> kind, content |-> content ] }

\* save_document(project_id, kind, content): upsert keyed by project and kind
save_document(store, project_id, kind, content) ==
    (store \ RowsOf(store, project_id, kind))
        \cup { [ project_id |-> project_id, kind |-> kind, content |-> content ] }

\* OnStageFailure with a fault: the documents of the project are rolled back
RollbackDocuments(store, project_id) ==
    { r \in store : r.project_id # project_id }

\* what the failure of a stage does to the documents already saved
OnStageFailure(store, project_id) == store

\* let x = self.generate_..(..).await?
Generate(c) ==
    /\ pc[c] = "generate"
    /\ \E r \in StageResults(c, step[c]) :
          /\ IF r = Err
             THEN /\ Fail(c, "generate",
                          IF GenerationStep[step[c]] = "AgentFiles"
                          THEN "ParseError" ELSE "ProviderError")
                  /\ docs' = OnStageFailure(docs, proj[c])
                  /\ UNCHANGED out
             ELSE /\ out' = [ out EXCEPT ![c][step[c]] = r.ok ]
                  /\ pc' = [ pc EXCEPT ![c] = "save" ]
                  /\ UNCHANGED << failure, docs >>
          /\ Logged(c, Event("generate", step[c], r # Err, StageArgs(c, step[c])))
    /\ UNCHANGED << proj, step, cds, jobs, project_status, repos, ag, codec, ps >>

\* self.save_document(project_id, kind, &x).await?
SaveDocument(c) ==
    /\ pc[c] = "save"
    /\ \/ /\ docs' = save_document(docs, proj[c], DocKind[step[c]], SavedContent(c, step[c]))
          /\ step' = [ step EXCEPT ![c] = NextStep(step[c]) ]
          /\ pc' = [ pc EXCEPT ![c] = AfterSave(step[c]) ]
          /\ UNCHANGED failure
       \/ /\ Fail(c, "save_document", "PersistenceError")
          /\ docs' = OnStageFailure(docs, proj[c])
          /\ UNCHANGED step
    /\ Logged(c, Event("save_document", step[c], pc'[c] # "err", DocKind[step[c]]))
    /\ UNCHANGED << proj, out, cds, jobs, project_status, repos, ag, codec, ps >>

\* let repo_name = self.get_project_name(project_id).await?
GetProjectName(c) ==
    /\ pc[c] = "get_project_name"
    /\ \/ /\ pc' = [ pc EXCEPT ![c] = "create_repository" ]
          /\ UNCHANGED failure
       \/ Fail(c, "get_project_name", "PersistenceError")
    /\ Logged(c, Event("get_project_name", step[c], pc'[c] # "err", proj[c]))
    /\ UNCHANGED << proj, step, out, cds, docs, jobs, project_status, repos, ag, codec, ps >>

(***************************************************************************)
(* GitHubService, driven by scaffold_github_repo(&repo_name, &schema,      *)
(* agents): create_repository, then create_directory_structure.            *)
(***************************************************************************)
\* the commit auto_init(true) makes in a new repository
AutoInitFile == AgentFile(<< "README.md" >>, [ auto_init |-> TRUE ])

\* GitHubService::create_repository
CreateRepository(c) ==
    /\ pc[c] = "create_repository"
    /\ \/ /\ ~repos[proj[c]].exists
          /\ repos' = [ repos EXCEPT ![proj[c]] =
                            [ exists |-> TRUE, files |-> << AutoInitFile >> ] ]
          /\ pc' = [ pc EXCEPT ![c] = "create_directory_structure" ]
          /\ cds' = [ cds EXCEPT ![c] = [ files |-> out[c][7].agents, chunk |-> 0, pos |-> 0 ] ]
          /\ UNCHANGED << failure, docs >>
       \/ /\ Fail(c, "create_repository", "RemoteServiceError")
          /\ docs' = OnStageFailure(docs, proj[c])
          /\ UNCHANGED << repos, cds >>
    /\ Logged(c, Event("create_repository", step[c], pc'[c] # "err", proj[c]))
    /\ UNCHANGED << proj, step, out, jobs, project_status, ag, codec, ps >>

Min(a, b) == IF a < b THEN a ELSE b

\* chunks with a fault: the last file of every full slice is left out
chunksDropBoundary(files, n) ==
    [ i \in 1..((Len(files) + n - 1) \div n) |->
        SubSeq(files, (i - 1) * n + 1, Min(i * n - 1, Len(files))) ]

\* files.chunks(n): consecutive slices of n files, the last one shorter
chunks(files, n) ==
    [ i \in 1..((Len(files) + n - 1) \div n) |->
        SubSeq(files, (i - 1) * n + 1, Min(i * n, Len(files))) ]

\* CurrentFile with a fault: each chunk is walked from its end
CurrentFileReversed(st) ==
    LET chunk == chunks(st.files, BatchSize)[st.chunk]
    IN  chunk[Len(chunk) + 1 - st.pos]

\* the file the loops of create_directory_structure are at
CurrentFile(st) == chunks(st.files, BatchSize)[st.chunk][st.pos]

\* FirstPosition with a fault: the first file is passed over
FirstPositionSkipsFirst(st) ==
    IF chunks(st.files, BatchSize) = <<>>
    THEN [ st EXCEPT !.chunk = 1, !.pos = 0 ]
    ELSE IF Len(chunks(st.files, BatchSize)[1]) >= 2
         THEN [ st EXCEPT !.chunk = 1, !.pos = 2 ]
         ELSE [ st EXCEPT !.chunk = 1, !.pos = 1 ]

\* the position of the first file: the first chunk's first file, if any
FirstPosition(st) ==
    IF chunks(st.files, BatchSize) = <<>>
    THEN [ st EXCEPT !.chunk = 1, !.pos = 0 ]
    ELSE [ st EXCEPT !.chunk = 1, !.pos = 1 ]

\* the position the loops move to after a file: the next file of the chunk,
\* else the first file of the next chunk
NextPosition(st) ==
    IF st.pos < Len(chunks(st.files, BatchSize)[st.chunk])
    THEN [ st EXCEPT !.pos = st.pos + 1 ]
    ELSE [ st EXCEPT !.chunk = st.chunk + 1, !.pos = 1 ]

\* the outer loop has a chunk left
InLoop(st) == st.chunk <= Len(chunks(st.files, BatchSize)) /\ st.pos >= 1

\* pc of the call once the loops are at position st: Ok(()) is returned
\* when no chunk is left
LoopPc(st) == IF InLoop(st) THEN "create_file" ELSE "update_project_status"

\* create_directory_structure is entered
CreateDirectoryStructure(c) ==
    /\ pc[c] = "create_directory_structure"
    /\ cds' = [ cds EXCEPT ![c] = FirstPosition(cds[c]) ]
    /\ pc' = [ pc EXCEPT ![c] = LoopPc(cds'[c]) ]
    /\ Logged(c, Event("create_directory_structure", step[c], TRUE, Len(cds[c].files)))
    /\ UNCHANGED << proj, step, out, failure, docs, jobs, project_status, repos, ag, codec, ps >>

\* OnCreateFileErr with a fault: the error is dropped and the loop goes on
OnCreateFileErrContinue(c) ==
    /\ pc' = [ pc EXCEPT ![c] = "sleep" ]
    /\ UNCHANGED << failure, cds >>

\* OnCreateFileErr with a fault: the failed create_file is issued again
OnCreateFileErrRetry(c) == UNCHANGED << pc, failure, cds >>

\* what create_directory_structure does when create_file returned Err: `?`
OnCreateFileErr(c) ==
    /\ Fail(c, "create_file", "RemoteServiceError")
    /\ UNCHANGED cds

\* self.create_file(repo, &file.path, &file.content, ..).await?
CreateFile(c) ==
    /\ pc[c] = "create_file"
    /\ \/ /\ repos' = [ repos EXCEPT ![proj[c]].files = Append(@, CurrentFile(cds[c])) ]
          /\ pc' = [ pc EXCEPT ![c] = "sleep" ]
          /\ UNCHANGED << failure, cds, docs >>
          /\ Logged(c, Event("create_file", step[c], TRUE, CurrentFile(cds[c]).path))
       \/ /\ OnCreateFileErr(c)
          /\ docs' = OnStageFailure(docs, proj[c])
          /\ UNCHANGED repos
          /\ Logged(c, Event("create_file", step[c], FALSE, CurrentFile(cds[c]).path))
    /\ UNCHANGED << proj, step, out, jobs, project_status, ag, codec, ps >>

\* tokio::time::sleep(Duration::from_millis(100)).await, then the loops advance
Sleep(c) ==
    /\ pc[c] = "sleep"
    /\ cds' = [ cds EXCEPT ![c] = NextPosition(cds[c]) ]
    /\ pc' = [ pc EXCEPT ![c] = LoopPc(cds'[c]) ]
    /\ Logged(c, Event("sleep", step[c], TRUE, SleepMillis))
    /\ UNCHANGED << proj, step, out, failure, docs, jobs, project_status, repos, ag, codec, ps >>

\* update_project_status(project_id, status)
update_project_status(table, project_id, status) ==
    [ table EXCEPT ![project_id] = status ]

\* self.update_project_status(project_id, "completed").await?; Ok(())
UpdateProjectStatus(c) ==
    /\ pc[c] = "update_project_status"
    /\ \/ /\ project_status' = update_project_status(project_status, proj[c], "completed")
          /\ pc' = [ pc EXCEPT ![c] = "ok" ]
          /\ UNCHANGED << failure, docs >>
       \/ /\ Fail(c, "update_project_status", "PersistenceError")
          /\ docs' = OnStageFailure(docs, proj[c])
          /\ UNCHANGED project_status
    /\ Logged(c, Event("update_project_status", step[c], pc'[c] # "err", "completed"))
    /\ UNCHANGED << proj, step, out, cds, jobs, repos, ag, codec, ps >>

Next ==
    \E c \in Calls :
        \/ StartGeneration(c)
        \/ GetProjectOwner(c)
        \/ QueueJob(c)
        \/ Generate(c)
        \/ SaveDocument(c)
        \/ GetProjectName(c)
        \/ CreateRepository(c)
        \/ CreateDirectoryStructure(c)
        \/ CreateFile(c)
        \/ Sleep(c)
        \/ UpdateProjectStatus(c)

Spec == Init /\ [][Next]_vars

(***************************************************************************)
(* SpecRetry: the pipeline together with the retry operation of the API    *)
(* (POST /generation/{id}/retry), which re-enters Processing at a named    *)
(* step for a job whose run has ended in a terminal status.                *)
(***************************************************************************)
TerminalStatus == { "completed", "failed" }

TerminalJobStatus == { "Completed", "Failed" }

\* the steps a retry is asked for
RetrySteps == { 2, 7 }

\* job j is in a terminal status: its run has returned and its status, or
\* the status of its project, is terminal
JobTerminal(j) ==
    /\ pc[jobs[j].id] \in { "ok", "err" }
    /\ \/ jobs[j].status \in TerminalJobStatus
       \/ project_status[jobs[j].project_id] \in TerminalStatus

\* retry_step(job, step): the job re-enters Processing at the named step
retry_step(queue, j, k) ==
    [ queue EXCEPT ![j].status = "Processing", ![j].step = GenerationStep[k] ]

RetryStep(j, k) ==
    /\ JobTerminal(j)
    /\ jobs' = retry_step(jobs, j, k)
    /\ project_status' =
          update_project_status(project_status, jobs[j].project_id, "processing")
    /\ UNCHANGED << pc, proj, step, out, failure, log, cds, docs, repos, ag, codec, ps >>

NextRetry ==
    \/ Next
    \/ \E j \in DOMAIN jobs : \E k \in RetrySteps : RetryStep(j, k)

SpecRetry == Init /\ [][NextRetry]_vars

(***************************************************************************)
(* SpecScaffold: one call of create_directory_structure(repo, files) on a  *)
(* repository create_repository has just made, for every length of files   *)
(* up to MaxFiles.                                                         *)
(***************************************************************************)
ScaffoldFiles(n) ==
    [ i \in 1..n |-> AgentFile(<< "d", ToString(i) >>, [ body |-> i ]) ]

InitScaffold ==
    /\ \E n \in 0..MaxFiles :
          cds = [ c \in Calls |->
                    IF c = 1 THEN [ files |-> ScaffoldFiles(n), chunk |-> 0, pos |-> 0 ]
                    ELSE NoCds ]
    /\ pc = [ c \in Calls |-> IF c = 1 THEN "create_directory_structure" ELSE "idle" ]
    /\ proj = [ c \in Calls |-> IF c = 1 THEN "p1" ELSE NoProject ]
    /\ step = [ c \in Calls |-> IF c = 1 THEN NumSteps ELSE 0 ]
    /\ out = [ c \in Calls |-> NoOutputs ]
    /\ failure = [ c \in Calls |-> None ]
    /\ log = [ c \in Calls |-> <<>> ]
    /\ docs = NoDocuments
    /\ jobs = <<>>
    /\ project_status = [ p \in Projects |-> "pending" ]
    /\ repos = [ p \in Projects |->
                   IF p = "p1" THEN [ exists |-> TRUE, files |-> << AutoInitFile >> ]
                   ELSE NoRepo ]
    /\ ag = AgIdle
    /\ codec = CodecIdle
    /\ ps = PsIdle

NextScaffold ==
    \E c \in Calls :
        \/ CreateDirectoryStructure(c)
        \/ CreateFile(c)
        \/ Sleep(c)

SpecScaffold == InitScaffold /\ [][NextScaffold]_vars

(***************************************************************************)
(* SpecAgents: generate_agent_files applied to the text of every schema    *)
(* over the bounded paths and directory configurations, under every        *)
(* iteration order of its maps.                                            *)
(***************************************************************************)
DirConfigs ==
    { DirectoryConfig(5, "source", ("main" :> FileConfig(9, "rust", "entry"))),
      DirectoryConfig(8, "docs", ("a" :> FileConfig(7, "md", "guide")
                                  @@ "b" :> FileConfig(5, "md", "notes"))) }

Flow(name, descr) == [ name |-> name, description |-> descr ]

EventFlowMaps ==
    { << >>, ( <<"s">> :> << Flow("build", "compile"), Flow("test", "run") >> ) }

Schemas ==
    { [ directory_structure |-> ds, event_flows |-> ef ] :
        ds \in UNION { [D -> DirConfigs] :
                         D \in { X \in SUBSET DirPaths : Cardinality(X) <= MaxDirs } },
        ef \in EventFlowMaps }

SchemaTexts ==
    { SchemaText(TRUE, sc) : sc \in Schemas }
    \cup { SchemaText(FALSE, [ directory_structure |-> << >>, event_flows |-> << >> ]) }

FileOrders(ds) ==
    { fo \in [ DOMAIN ds -> UNION { IterOrders(DOMAIN ds[d].files) : d \in DOMAIN ds } ] :
        \A d \in DOMAIN ds : fo[d] \in IterOrders(DOMAIN ds[d].files) }

InitAgents ==
    /\ \E text \in SchemaTexts :
          \E dirOrder \in IterOrders(DOMAIN text.value.directory_structure) :
             \E fileOrder \in FileOrders(text.value.directory_structure) :
                ag = [ text |-> Some(text), dirOrder |-> dirOrder,
                       fileOrder |-> fileOrder, result |-> None ]
    /\ pc = [ c \in Calls |-> "idle" ]
    /\ proj = [ c \in Calls |-> NoProject ]
    /\ step = [ c \in Calls |-> 0 ]
    /\ out = [ c \in Calls |-> NoOutputs ]
    /\ failure = [ c \in Calls |-> None ]
    /\ log = [ c \in Calls |-> <<>> ]
    /\ cds = [ c \in Calls |-> NoCds ]
    /\ docs = NoDocuments
    /\ jobs = <<>>
    /\ project_status = [ p \in Projects |-> "pending" ]
    /\ repos = [ p \in Projects |-> NoRepo ]
    /\ codec = CodecIdle
    /\ ps = PsIdle

\* generate_agent_files(&schema) is called and returns
GenerateAgentFiles ==
    /\ ag.result = None
    /\ ag' = [ ag EXCEPT !.result =
                  Some(generate_agent_files(ag.text.some, ag.dirOrder, ag.fileOrder)) ]
    /\ UNCHANGED pipelineVars

NextAgents == GenerateAgentFiles

SpecAgents == InitAgents /\ [][NextAgents]_vars

(***************************************************************************)
(* SpecDocs: generate_agent_files applied to the text of a schema of one   *)
(* directory, for every file map over the bounded names and criticality    *)
(* values (values that are no u8 included) and every iteration order.      *)
(***************************************************************************)
\* most files in the directory
MaxDirFiles == 3

\* file names, in ascending order
AllNames == << "a", "b", "c", "d", "e", "f" >>

FileNames == { AllNames[i] : i \in 1..Min(MaxDirFiles, Len(AllNames)) }

\* the values a criticality is given in the text
CritValues == { 0, 6, 7, 8, 9, 10, 11, 255, 256 }

DirCritValues == { 5, 11 }

DocsDir == << "s" >>

DocsSchemas ==
    { [ directory_structure |-> ( DocsDir :> DirectoryConfig(dc, "source", files) ),
        event_flows |-> << >> ] :
        dc \in DirCritValues,
        files \in UNION { [ N -> { FileConfig(v, "rust", "part") : v \in CritValues } ] :
                            N \in SUBSET FileNames } }

InitDocs ==
    /\ \E sc \in DocsSchemas :
          \E fileOrder \in FileOrders(sc.directory_structure) :
             ag = [ text |-> Some(SchemaText(TRUE, sc)), dirOrder |-> << DocsDir >>,
                    fileOrder |-> fileOrder, result |-> None ]
    /\ pc = [ c \in Calls |-> "idle" ]
    /\ proj = [ c \in Calls |-> NoProject ]
    /\ step = [ c \in Calls |-> 0 ]
    /\ out = [ c \in Calls |-> NoOutputs ]
    /\ failure = [ c \in Calls |-> None ]
    /\ log = [ c \in Calls |-> <<>> ]
    /\ cds = [ c \in Calls |-> NoCds ]
    /\ docs = NoDocuments
    /\ jobs = <<>>
    /\ project_status = [ p \in Projects |-> "pending" ]
    /\ repos = [ p \in Projects |-> NoRepo ]
    /\ codec = CodecIdle
    /\ ps = PsIdle

SpecDocs == InitDocs /\ [][NextAgents]_vars

(***************************************************************************)
(* SpecCodec: serde_json::to_string followed by serde_json::from_str on a  *)
(* CommunicationSchema, as derived by Serialize / Deserialize. A JSON text *)
(* is kept as the tree of its values; an object is the sequence of its     *)
(* members in the order they are written.                                  *)
(***************************************************************************)
\* most files in the directory of a serialised schema
MaxCodecFiles == 2

JNull == [ jnull |-> TRUE ]
JNum(n) == [ jnum |-> n ]
JStr(s) == [ jstr |-> s ]
JArr(items) == [ jarr |-> items ]
JObj(members) == [ jobj |-> members ]
Member(key, value) == [ key |-> key, value |-> value ]

\* the order a map with key set S is written in: one enumeration of S, or
\* its reverse
Reverse(o) == [ i \in DOMAIN o |-> o[Len(o) + 1 - i] ]

WriteOrder(S, rev) ==
    IF rev THEN Reverse(CHOOSE o \in IterOrders(S) : TRUE)
    ELSE CHOOSE o \in IterOrders(S) : TRUE

\* the content of an Option, or the default for None
Unwrap(opt, default) == IF opt = None THEN default ELSE opt.some

\* ser_option with a fault: a field that is Some is written as null
ser_option_null(opt, json) == JNull

\* Serialize for Option<T>: None is null, Some(x) is x
ser_option(opt, json) == IF opt = None THEN JNull ELSE json

\* Serialize for Vec<String>
ser_strings(v) == JArr([ i \in DOMAIN v |-> JStr(v[i]) ])

\* Serialize for HashMap<String, String>
ser_string_map(m, rev) ==
    LET o == WriteOrder(DOMAIN m, rev)
    IN  JObj([ i \in DOMAIN o |-> Member(o[i], JStr(m[o[i]])) ])

\* Serialize for FileConfig (file_type is renamed "type")
ser_FileConfig(f, rev) ==
    JObj(<< Member("criticality", JNum(f.criticality)),
            Member("type", JStr(f.file_type)),
            Member("purpose", JStr(f.purpose)),
            Member("dependencies", ser_strings(f.dependencies)),
            Member("communicates",
                   ser_option(f.communicates,
                              ser_string_map(Unwrap(f.communicates, << >>), rev))),
            Member("triggers",
                   ser_option(f.triggers, ser_strings(Unwrap(f.triggers, << >>)))),
            Member("modifies",
                   ser_option(f.modifies, ser_strings(Unwrap(f.modifies, << >>)))) >>)

\* Serialize for HashMap<String, FileConfig>
ser_files(m, rev) ==
    LET o == WriteOrder(DOMAIN m, rev)
    IN  JObj([ i \in DOMAIN o |-> Member(o[i], ser_FileConfig(m[o[i]], rev)) ])

\* Serialize for DirectoryConfig; the sub-directory maps explored are empty
ser_DirectoryConfig(d, rev) ==
    JObj(<< Member("criticality", JNum(d.criticality)),
            Member("description", JStr(d.description)),
            Member("files", ser_files(d.files, rev)),
            Member("directories", ser_option(d.directories, JObj(<< >>))),
            Member("receives_from",
                   ser_option(d.receives_from, ser_strings(Unwrap(d.receives_from, << >>)))),
            Member("sends_to",
                   ser_option(d.sends_to, ser_strings(Unwrap(d.sends_to, << >>)))),
            Member("protocols",
                   ser_option(d.protocols, ser_strings(Unwrap(d.protocols, << >>)))) >>)

\* Serialize for Vec<EventFlow>
ser_flows(v) ==
    JArr([ i \in DOMAIN v |->
             JObj(<< Member("name", JStr(v[i].name)),
                     Member("description", JStr(v[i].description)) >>) ])

\* serde_json::to_string(&schema)
to_string(schema, rev) ==
    LET ds == WriteOrder(DOMAIN schema.directory_structure, rev)
        ef == WriteOrder(DOMAIN schema.event_flows, rev)
    IN  JObj(<< Member("directory_structure",
                       JObj([ i \in DOMAIN ds |->
                                Member(ds[i],
                                       ser_DirectoryConfig(
                                           schema.directory_structure[ds[i]], rev)) ])),
                Member("event_flows",
                       JObj([ i \in DOMAIN ef |->
                                Member(ef[i], ser_flows(schema.event_flows[ef[i]])) ])) >>)

\* what looking up a member that is not written gives
Missing == [ missing |-> TRUE ]

IsNum(j) == "jnum" \in DOMAIN j
IsStr(j) == "jstr" \in DOMAIN j
IsArr(j) == "jarr" \in DOMAIN j
IsObj(j) == "jobj" \in DOMAIN j

Keys(j) == { j.jobj[i].key : i \in DOMAIN j.jobj }

\* the value of member key of object j
Get(j, key) ==
    IF key \in Keys(j)
    THEN j.jobj[CHOOSE i \in DOMAIN j.jobj : j.jobj[i].key = key].value
    ELSE Missing

\* an Option field is None when the member is null or not written
IsAbsent(j) == j = JNull \/ j = Missing

\* Deserialize for Option<T>
de_option(j, value) == IF IsAbsent(j) THEN None ELSE Some(value)

\* Deserialize for u8
ok_u8(j) == IsNum(j) /\ IsU8(j.jnum)

\* Deserialize for Vec<String>
ok_strings(j) == IsArr(j) /\ \A i \in DOMAIN j.jarr : IsStr(j.jarr[i])
de_strings(j) == IF IsArr(j) THEN [ i \in DOMAIN j.jarr |-> j.jarr[i].jstr ] ELSE << >>

\* Deserialize for HashMap<String, String>
ok_string_map(j) == IsObj(j) /\ \A k \in Keys(j) : IsStr(Get(j, k))
de_string_map(j) == IF IsObj(j) THEN [ k \in Keys(j) |-> Get(j, k).jstr ] ELSE << >>

\* Deserialize for FileConfig
ok_FileConfig(j) ==
    /\ IsObj(j)
    /\ ok_u8(Get(j, "criticality"))
    /\ IsStr(Get(j, "type"))
    /\ IsStr(Get(j, "purpose"))
    /\ ok_strings(Get(j, "dependencies"))
    /\ IsAbsent(Get(j, "communicates")) \/ ok_string_map(Get(j, "communicates"))
    /\ IsAbsent(Get(j, "triggers")) \/ ok_strings(Get(j, "triggers"))
    /\ IsAbsent(Get(j, "modifies")) \/ ok_strings(Get(j, "modifies"))

de_FileConfig(j) ==
    [ criticality |-> Get(j, "criticality").jnum,
      file_type |-> Get(j, "type").jstr,
      purpose |-> Get(j, "purpose").jstr,
      dependencies |-> de_strings(Get(j, "dependencies")),
      communicates |-> de_option(Get(j, "communicates"),
                                 de_string_map(Get(j, "communicates"))),
      triggers |-> de_option(Get(j, "triggers"), de_strings(Get(j, "triggers"))),
      modifies |-> de_option(Get(j, "modifies"), de_strings(Get(j, "modifies"))) ]

\* Deserialize for DirectoryConfig; a sub-directory map is read when empty
ok_DirectoryConfig(j) ==
    /\ IsObj(j)
    /\ ok_u8(Get(j, "criticality"))
    /\ IsStr(Get(j, "description"))
    /\ IsObj(Get(j, "files"))
    /\ \A k \in Keys(Get(j, "files")) : ok_FileConfig(Get(Get(j, "files"), k))
    /\ IsAbsent(Get(j, "directories")) \/ Get(j, "directories") = JObj(<< >>)
    /\ IsAbsent(Get(j, "receives_from")) \/ ok_strings(Get(j, "receives_from"))
    /\ IsAbsent(Get(j, "sends_to")) \/ ok_strings(Get(j, "sends_to"))
    /\ IsAbsent(Get(j, "protocols")) \/ ok_strings(Get(j, "protocols"))

de_DirectoryConfig(j) ==
    [ criticality |-> Get(j, "criticality").jnum,
      description |-> Get(j, "description").jstr,
      files |-> [ k \in Keys(Get(j, "files")) |-> de_FileConfig(Get(Get(j, "files"), k)) ],
      directories |-> de_option(Get(j, "directories"), << >>),
      receives_from |-> de_option(Get(j, "receives_from"),
                                  de_strings(Get(j, "receives_from"))),
      sends_to |-> de_option(Get(j, "sends_to"), de_strings(Get(j, "sends_to"))),
      protocols |-> de_option(Get(j, "protocols"), de_strings(Get(j, "protocols"))) ]

\* Deserialize for Vec<EventFlow>
ok_flows(j) ==
    /\ IsArr(j)
    /\ \A i \in DOMAIN j.jarr :
          /\ IsObj(j.jarr[i])
          /\ IsStr(Get(j.jarr[i], "name"))
          /\ IsStr(Get(j.jarr[i], "description"))

de_flows(j) ==
    [ i \in DOMAIN j.jarr |->
        [ name |-> Get(j.jarr[i], "name").jstr,
          description |-> Get(j.jarr[i], "description").jstr ] ]

\* serde_json::from_str::<CommunicationSchema>(text)
from_str(j) ==
    LET ds == Get(j, "directory_structure")
        ef == Get(j, "event_flows")
    IN  IF /\ IsObj(j)
           /\ IsObj(ds) /\ \A k \in Keys(ds) : ok_DirectoryConfig(Get(ds, k))
           /\ IsObj(ef) /\ \A k \in Keys(ef) : ok_flows(Get(ef, k))
        THEN Ok([ directory_structure |->
                      [ k \in Keys(ds) |-> de_DirectoryConfig(Get(ds, k)) ],
                  event_flows |-> [ k \in Keys(ef) |-> de_flows(Get(ef, k)) ] ])
        ELSE Err

\* the schemas serialised: at most one directory, every file map over the
\* bounded names, with each optional field present and absent
CodecFileConfigs ==
    { [ FileConfig(9, "rust", "entry") EXCEPT
          !.dependencies = dep, !.communicates = comm, !.triggers = trig ] :
        dep \in { << >>, << "b" >> },
        comm \in { None, Some(<< >>), Some(("a" :> "calls") @@ ("b" :> "reads")) },
        trig \in { None, Some(<< "t" >>) } }

CodecDirConfigs ==
    { [ DirectoryConfig(5, "source", files) EXCEPT
          !.directories = dirs, !.receives_from = recv ] :
        files \in UNION { [ N -> CodecFileConfigs ] :
                            N \in SUBSET { AllNames[i] : i \in 1..MaxCodecFiles } },
        dirs \in { None, Some(<< >>) },
        recv \in { None, Some(<< "x", "y" >>) } }

CodecSchemas ==
    { [ directory_structure |-> ds, event_flows |-> ef ] :
        ds \in { << >> } \cup { ( DocsDir :> dc ) : dc \in CodecDirConfigs },
        ef \in EventFlowMaps }

InitCodec ==
    /\ \E sc \in CodecSchemas : \E rev \in BOOLEAN :
          codec = [ input |-> Some([ schema |-> sc, rev |-> rev ]),
                    text |-> None, result |-> None ]
    /\ ag = AgIdle
    /\ ps = PsIdle
    /\ pc = [ c \in Calls |-> "idle" ]
    /\ proj = [ c \in Calls |-> NoProject ]
    /\ step = [ c \in Calls |-> 0 ]
    /\ out = [ c \in Calls |-> NoOutputs ]
    /\ failure = [ c \in Calls |-> None ]
    /\ log = [ c \in Calls |-> <<>> ]
    /\ cds = [ c \in Calls |-> NoCds ]
    /\ docs = NoDocuments
    /\ jobs = <<>>
    /\ project_status = [ p \in Projects |-> "pending" ]
    /\ repos = [ p \in Projects |-> NoRepo ]

codecRest == << pc, proj, step, out, failure, log, cds, docs, jobs, project_status,
                repos, ag, ps >>

\* serde_json::to_string(&schema)
Serialize ==
    /\ codec.input # None /\ codec.text = None
    /\ codec' = [ codec EXCEPT
                    !.text = Some(to_string(codec.input.some.schema, codec.input.some.rev)) ]
    /\ UNCHANGED codecRest

\* serde_json::from_str(&text)
Parse ==
    /\ codec.text # None /\ codec.result = None
    /\ codec' = [ codec EXCEPT !.result = Some(from_str(codec.text.some)) ]
    /\ UNCHANGED codecRest

NextCodec == Serialize \/ Parse

SpecCodec == InitCodec /\ [][NextCodec]_vars

(***************************************************************************)
(* SpecProjects: ProjectService on the projects table. A row holds the     *)
(* status as the string stored and the progress; calls are made one after  *)
(* the other, and ps.last is the last call with what it returned.          *)
(***************************************************************************)
\* most rows in the projects table
MaxProjects == 2

ProjectIds == { ToString(i) : i \in 1..MaxProjects }

\* enum ProjectStatus
ProjectStatus == { "Pending", "Generating", "Complete", "Failed" }

\* the progress values passed to update_project_status
ProgressValues == { 0, 40, 100 }

\* status_str with a fault: Complete is stored as "completed"
status_str_completed(status) ==
    CASE status = "Pending" -> "pending"
      [] status = "Generating" -> "generating"
      [] status = "Complete" -> "completed"
      [] status = "Failed" -> "failed"

\* update_project_status: let status_str = match status { .. }
status_str(status) ==
    CASE status = "Pending" -> "pending"
      [] status = "Generating" -> "generating"
      [] status = "Complete" -> "complete"
      [] status = "Failed" -> "failed"

\* get_project / list_projects: match row.status.as_str() { .. }
match_status(str) ==
    CASE str = "generating" -> "Generating"
      [] str = "complete" -> "Complete"
      [] str = "failed" -> "Failed"
      [] OTHER -> "Pending"

\* the Project built from a row
ProjectOf(row) == [ status |-> match_status(row.status), progress |-> row.progress ]

\* ProjectService::create_project: INSERT .. "pending", 0i32
PS_create_project(rows, id) ==
    rows @@ ( id :> [ status |-> "pending", progress |-> 0 ] )

\* what create_project returns: status Pending, progress of the row
PS_created(rows, id) == [ status |-> "Pending", progress |-> rows[id].progress ]

\* ProjectService::update_project_status: UPDATE .. WHERE id = $n
PS_update_project_status(rows, id, status, progress) ==
    IF id \notin DOMAIN rows THEN rows
    ELSE IF progress # None
         THEN [ rows EXCEPT ![id] = [ status |-> status_str(status),
                                      progress |-> progress.some ] ]
         ELSE [ rows EXCEPT ![id].status = status_str(status) ]

\* ProjectService::get_project
PS_get_project(rows, id) ==
    IF id \in DOMAIN rows THEN Some(ProjectOf(rows[id])) ELSE None

\* ProjectService::list_projects (every row, as Project)
PS_list_projects(rows) == [ id \in DOMAIN rows |-> ProjectOf(rows[id]) ]

\* ProjectService::delete_project
PS_delete_project(rows, id) == [ i \in DOMAIN rows \ { id } |-> rows[i] ]

Call(op, id, args, before, ok, result) ==
    Some([ op |-> op, id |-> id, args |-> args, before |-> before, ok |-> ok,
           result |-> result ])

NoArgs == [ status |-> "Pending", progress |-> None ]

\* the row of id before the call, if any
RowBefore(id) == IF id \in DOMAIN ps.rows THEN Some(ps.rows[id]) ELSE None

CreateProject(id) ==
    /\ id \notin DOMAIN ps.rows
    /\ \/ ps' = [ rows |-> PS_create_project(ps.rows, id),
                  last |-> Call("create", id, NoArgs, None, TRUE,
                                Some(PS_created(PS_create_project(ps.rows, id), id))) ]
       \/ ps' = [ ps EXCEPT !.last = Call("create", id, NoArgs, None, FALSE, None) ]

UpdateStatus(id, status, progress) ==
    LET args == [ status |-> status, progress |-> progress ]
    IN  \/ ps' = [ rows |-> PS_update_project_status(ps.rows, id, status, progress),
                   last |-> Call("update", id, args, RowBefore(id), TRUE, None) ]
        \/ ps' = [ ps EXCEPT !.last = Call("update", id, args, RowBefore(id), FALSE, None) ]

GetProject(id) ==
    ps' = [ ps EXCEPT !.last = Call("get", id, NoArgs, RowBefore(id), TRUE,
                                    PS_get_project(ps.rows, id)) ]

ListProjects ==
    ps' = [ ps EXCEPT !.last = Call("list", "all", NoArgs, None, TRUE,
                                    Some([ list |-> PS_list_projects(ps.rows) ])) ]

DeleteProject(id) ==
    ps' = [ rows |-> PS_delete_project(ps.rows, id),
            last |-> Call("delete", id, NoArgs, RowBefore(id), TRUE, None) ]

InitProjects ==
    /\ ps = PsIdle
    /\ ag = AgIdle
    /\ codec = CodecIdle
    /\ pc = [ c \in Calls |-> "idle" ]
    /\ proj = [ c \in Calls |-> NoProject ]
    /\ step = [ c \in Calls |-> 0 ]
    /\ out = [ c \in Calls |-> NoOutputs ]
    /\ failure = [ c \in Calls |-> None ]
    /\ log = [ c \in Calls |-> <<>> ]
    /\ cds = [ c \in Calls |-> NoCds ]
    /\ docs = NoDocuments
    /\ jobs = <<>>
    /\ project_status = [ p \in Projects |-> "pending" ]
    /\ repos = [ p \in Projects |-> NoRepo ]

projectsRest == << pc, proj, step, out, failure, log, cds, docs, jobs, project_status,
                   repos, ag, codec >>

NextProjects ==
    /\ UNCHANGED projectsRest
    /\ \/ \E id \in ProjectIds :
             \/ CreateProject(id)
             \/ \E s \in ProjectStatus :
                   \E pr \in { None } \cup { Some(v) : v \in ProgressValues } :
                      UpdateStatus(id, s, pr)
             \/ GetProject(id)
             \/ DeleteProject(id)
       \/ ListProjects

SpecProjects == InitProjects /\ [][NextProjects]_vars

(***************************************************************************)
(* Properties                                                              *)
(***************************************************************************)
\* the events of log[c] that open a stage: the stage function of steps 1..7,
\* and get_project_name, the first call of step 8
StageStartOps == {"generate", "get_project_name"}

StartIdx(c) == { i \in DOMAIN log[c] : log[c][i].op \in StageStartOps }

\* the two events before event i are stage k returning Ok and its document
\* being saved
StageDoneBefore(c, k, i) ==
    /\ i > 2
    /\ log[c][i - 2].op = "generate" /\ log[c][i - 2].step = k /\ log[c][i - 2].ok
    /\ log[c][i - 1].op = "save_document" /\ log[c][i - 1].step = k /\ log[c][i - 1].ok
    /\ log[c][i - 1].arg = DocKind[k]

\* C1: in every run the stages start in the order of GenerationStep, none
\* skipped, repeated or reordered: the first stage started is DevPlan, and
\* stage k+1 is started right after stage k has returned Ok and its
\* document has been saved, and at no other time.
C1_StagesInOrder ==
    \A c \in Calls :
        \A i \in StartIdx(c) :
            LET k == log[c][i].step
            IN  /\ k \in 1..NumSteps
                /\ k = 1 => \A j \in 1..(i - 1) : log[c][j].op \notin StageStartOps
                /\ (log[c][i].op = "get_project_name") = (GenerationStep[k] = "GitHubScaffold")
                /\ k > 1 => StageDoneBefore(c, k - 1, i)

\* a run that went through all eight stages
C1_Witness == \E c \in Calls : pc[c] = "ok" /\ Cardinality(StartIdx(c)) = NumSteps

\* C2: a failed call is the last thing its run does: after the Err of a
\* generation call or of a save, the run makes no provider call, saves no
\* document, creates and writes no repository and does not retry; the call
\* has returned the Err.
C2_HaltsOnFailure ==
    \A c \in Calls :
        /\ \A i \in DOMAIN log[c] : ~log[c][i].ok => i = Len(log[c])
        /\ (log[c] # <<>> /\ ~log[c][Len(log[c])].ok) =>
              /\ pc[c] = "err"
              /\ failure[c].step = log[c][Len(log[c])].step
              \* no document of the failed stage or a later one comes from this run
              /\ \A k \in 1..(NumDocs - 1) :
                    (k >= failure[c].step /\ failure[c].step >= 1) =>
                        Doc(docs, proj[c], DocKind[k]) \notin ProviderTexts(k, c)
              \* failed before create_repository succeeded: no repository from this run
              /\ (failure[c].op # "create_file" /\ failure[c].op # "update_project_status"
                    /\ \A b \in Calls \ {c} : proj[b] # proj[c])
                   => (proj[c] \in Projects => ~repos[proj[c]].exists)

\* the Architecture provider call failed
C2_Witness ==
    \E c \in Calls :
        /\ pc[c] = "err" /\ failure[c].op = "generate"
        /\ GenerationStep[failure[c].step] = "Architecture"

\* C3: no rollback. After a stage of a run failed, the document of every
\* earlier stage of that run is still persisted, and with the content the
\* run saved unless another run on the same project saved that kind.
C3_NoRollback ==
    \A c \in Calls :
        (pc[c] = "err" /\ failure[c].step >= 1) =>
            \A k \in 1..NumDocs :
                k < failure[c].step =>
                    /\ Doc(docs, proj[c], DocKind[k]) # None
                    /\ (\A b \in Calls \ {c} : proj[b] # proj[c]) =>
                          Doc(docs, proj[c], DocKind[k]) = SavedContent(c, k)

\* the Architecture stage failed and the DevPlan document is persisted
C3_Witness ==
    \E c \in Calls :
        /\ pc[c] = "err" /\ failure[c].op = "generate"
        /\ GenerationStep[failure[c].step] = "Architecture"
        /\ Doc(docs, proj[c], "dev_plan") = out[c][1]

\* C4: when a stage of a run fails, the project is in status failed (or has
\* been completed by another run): it is not left in a non-terminal status.
C4_FailedStatusRecorded ==
    \A c \in Calls :
        (pc[c] = "err" /\ failure[c].step >= 1) =>
            /\ project_status[proj[c]] \in {"failed", "completed"}
            /\ (\A b \in Calls \ {c} : proj[b] # proj[c]) =>
                  project_status[proj[c]] = "failed"

\* every stage of run c has succeeded: the seven documents generated and
\* saved, the repository created, every agent file committed, status updated
AllStagesSucceeded(c) ==
    /\ \A k \in 1..NumDocs :
          \E i \in StartIdx(c) : log[c][i].step = k + 1 /\ StageDoneBefore(c, k, i)
    /\ \E i \in DOMAIN log[c] : log[c][i].op = "create_repository" /\ log[c][i].ok
    /\ \A f \in Range(out[c][NumDocs].agents) :
          \E i \in DOMAIN log[c] :
              log[c][i].op = "create_file" /\ log[c][i].ok /\ log[c][i].arg = f.path
    /\ \A i \in DOMAIN log[c] : log[c][i].ok
    /\ log[c][Len(log[c])].op = "update_project_status"

\* C5: a project is completed only if all eight stages of a run on it have
\* succeeded, and a run that returned Ok has left its project completed.
C5_CompletedIffAllStages ==
    /\ \A p \in Projects :
          project_status[p] = "completed" =>
              \E c \in Calls : proj[c] = p /\ pc[c] = "ok" /\ AllStagesSucceeded(c)
    /\ \A c \in Calls : pc[c] = "ok" => project_status[proj[c]] = "completed"

C5_Witness == \E p \in Projects : project_status[p] = "completed"

\* the job start_generation queued for call c
JobOf(c) == { j \in Range(jobs) : j.id = c }

\* C6: no stage runs while the job is still Pending: once the run has
\* started a stage its job is Processing, and Completed or Failed once the
\* call has returned.
C6_JobStatusSequence ==
    \A c \in Calls :
        \A j \in JobOf(c) :
            /\ j.status \in JobStatus
            /\ StartIdx(c) # {} => j.status # "Pending"
            /\ pc[c] = "ok" => j.status = "Completed"
            /\ pc[c] = "err" => j.status = "Failed"

\* call c is in its stage chain
Active(c) ==
    pc[c] \in { "generate", "save", "get_project_name", "create_repository",
                "create_directory_structure", "create_file", "sleep",
                "update_project_status" }

\* C7: at most one call per project is in its stage chain at a time.
C7_OneActiveJobPerProject ==
    \A b, c \in Calls :
        (b # c /\ Active(b) /\ Active(c)) => proj[b] # proj[c]

(***************************************************************************)
(* Properties of create_directory_structure (SpecScaffold)                 *)
(***************************************************************************)
\* the create_file calls of call c, in the order they were made
Attempts(c) == SelectSeq(log[c], LAMBDA e : e.op = "create_file")

\* the files committed to the repository of call c after auto_init
Committed(c) == Tail(repos[proj[c]].files)

ScaffoldCalls == { c \in Calls : cds[c].chunk >= 1 }

\* C8: the first failing create_file ends the operation with that error: the
\* failed attempt on file i is the last attempt, files 1..i-1 are in the
\* repository, and no file after i is attempted.
C8_FirstFailureAborts ==
    \A c \in ScaffoldCalls :
        LET att == Attempts(c)
            n == Len(att)
        IN  /\ \A i \in 1..n : att[i].arg = cds[c].files[i].path
            /\ \A i \in 1..(n - 1) : att[i].ok
            /\ (n >= 1 /\ ~att[n].ok) =>
                  /\ pc[c] = "err"
                  /\ failure[c].op = "create_file"
                  /\ failure[c].error = "RemoteServiceError"
                  /\ Committed(c) = SubSeq(cds[c].files, 1, n - 1)

\* create_file failed on file 15 of more than 15 files
C8_Witness ==
    \E c \in ScaffoldCalls :
        /\ pc[c] = "err"
        /\ Len(Attempts(c)) = 15
        /\ Len(Committed(c)) = 14
        /\ Len(cds[c].files) > 15

\* C9: files are committed in input order, file i only after files 1..i-1,
\* and a delay follows every commit before the next create_file is issued.
C9_InOrderWithDelay ==
    \A c \in ScaffoldCalls :
        /\ \E n \in 0..Len(cds[c].files) : Committed(c) = SubSeq(cds[c].files, 1, n)
        /\ \A i \in DOMAIN Attempts(c) : Attempts(c)[i].arg = cds[c].files[i].path
        /\ \A i \in DOMAIN log[c] :
              (log[c][i].op = "create_file" /\ log[c][i].ok /\ i < Len(log[c])) =>
                  /\ log[c][i + 1].op = "sleep"
                  /\ log[c][i + 1].arg = SleepMillis
        /\ (pc[c] = "create_file" /\ Len(Attempts(c)) >= 1) =>
              log[c][Len(log[c])].op = "sleep"

\* the first file of the second batch is about to be committed
C9_Witness ==
    \E c \in ScaffoldCalls :
        /\ pc[c] = "create_file"
        /\ Len(Committed(c)) = BatchSize
        /\ cds[c].chunk = 2 /\ cds[c].pos = 1

(***************************************************************************)
(* Properties of generate_agent_files (SpecAgents)                         *)
(***************************************************************************)
\* base is dir without its trailing slashes
IsTrimmed(base, dir) ==
    /\ Len(base) <= Len(dir)
    /\ base = SubSeq(dir, 1, Len(base))
    /\ \A j \in (Len(base) + 1)..Len(dir) : dir[j] = "/"
    /\ base # <<>> => base[Len(base)] # "/"

\* generate_agent_files returned Ok
AgentsOk == ag.result # None /\ ag.result.some # Err

AgentsOut == ag.result.some.ok

\* C10: for a schema that parsed, the result holds, for every directory d of
\* directory_structure, exactly two files rendered for d, one at
\* <d>/README.md and one at <d>/AGENT.md (d without trailing slashes), of
\* identical content, and nothing else: 2 x |directory_structure| files.
C10_TwoFilesPerDirectory ==
    AgentsOk =>
        LET dirs == DOMAIN ag.text.some.value.directory_structure
            OfDir(d) == { i \in DOMAIN AgentsOut : AgentsOut[i].content.header[1] = d }
        IN  /\ Len(AgentsOut) = 2 * Cardinality(dirs)
            /\ \A i \in DOMAIN AgentsOut : AgentsOut[i].content.header[1] \in dirs
            /\ \A d \in dirs :
                  \E i, j \in OfDir(d) :
                      /\ OfDir(d) = {i, j}
                      /\ i # j
                      /\ AgentsOut[i].content = AgentsOut[j].content
                      /\ \E base \in { SubSeq(d, 1, m) : m \in 0..Len(d) } :
                            /\ IsTrimmed(base, d)
                            /\ AgentsOut[i].path = base \o << "/", "README.md" >>
                            /\ AgentsOut[j].path = base \o << "/", "AGENT.md" >>

\* a schema of two directories, one of them written with a trailing slash
C10_Witness ==
    /\ AgentsOk
    /\ Len(AgentsOut) = 4
    /\ << "s", "/" >> \in DOMAIN ag.text.some.value.directory_structure

(***************************************************************************)
(* Properties of the schema the pipeline accepts                           *)
(***************************************************************************)
\* the CommunicationSchema stage of run c returned a schema whose
\* directory_structure is empty
EmptySchemaDelivered(c) == out[c][6] # None /\ out[c][6].shape = "empty_dirs"

\* C11: a schema with an empty directory_structure is rejected: the run
\* that was delivered one produces no agent files, not even an empty list,
\* and does not return Ok; once the AgentFiles stage has been attempted the
\* run has failed.
C11_EmptyStructureRejected ==
    \A c \in Calls :
        EmptySchemaDelivered(c) =>
            /\ out[c][NumDocs] = None
            /\ pc[c] # "ok"
            /\ (\E i \in DOMAIN log[c] : log[c][i].op = "generate" /\ log[c][i].step = NumDocs)
                  => pc[c] = "err"

(***************************************************************************)
(* Properties of generate_directory_docs (SpecDocs)                        *)
(***************************************************************************)
\* the directory_structure of the schema text handed to generate_agent_files
TextDirs == ag.text.some.value.directory_structure

\* every criticality written in the text, of directories and of files
TextCriticalities ==
    { TextDirs[d].criticality : d \in DOMAIN TextDirs }
    \cup UNION { { TextDirs[d].files[f].criticality : f \in DOMAIN TextDirs[d].files } :
                   d \in DOMAIN TextDirs }

\* the range of criticality the specification allows
CriticalityRange == 0..10

\* generate_agent_files has returned
AgentsDone == ag.result # None

\* C12: every criticality of a schema that is accepted and rendered lies in
\* [0, 10]: a text holding a criticality outside it (11, 255) is rejected
\* with an error and is not rendered into agent files.
C12_CriticalityInRange ==
    AgentsDone =>
        /\ AgentsOk => TextCriticalities \subseteq CriticalityRange
        /\ ~(TextCriticalities \subseteq CriticalityRange) => ag.result.some = Err

\* the rendered document of the directory of a one-directory schema
DocOut == AgentsOut[1].content

\* the files of that directory as the text gives them
DocFiles == TextDirs[DocsDir].files

Names(entries) == [ i \in DOMAIN entries |-> entries[i].name ]

\* the names listed in each section, in the order they are listed
CriticalNames == Names(DocOut.critical)
ImportantNames == Names(DocOut.important)
SupportingNames ==
    IF DocOut.supporting = None THEN << >> ELSE Names(DocOut.supporting.some)

\* how many times name n is listed in the sequence of names
Occurrences(names, n) == Cardinality({ i \in DOMAIN names : names[i] = n })

\* C13: every file of the directory is listed in exactly one band, once:
\* under critical iff its criticality is >= 9, under important iff it is
\* >= 7 and < 9, under supporting iff it is < 7; no file is listed twice or
\* left out, and nothing else is listed.
C13_BandsPartition ==
    AgentsOk =>
        /\ \A n \in DOMAIN DocFiles :
              LET c == DocFiles[n].criticality
              IN  /\ Occurrences(CriticalNames, n) = (IF c >= 9 THEN 1 ELSE 0)
                  /\ Occurrences(ImportantNames, n) = (IF c >= 7 /\ c < 9 THEN 1 ELSE 0)
                  /\ Occurrences(SupportingNames, n) = (IF c < 7 THEN 1 ELSE 0)
                  /\ Occurrences(CriticalNames \o ImportantNames \o SupportingNames, n) = 1
        /\ Range(CriticalNames \o ImportantNames \o SupportingNames) = DOMAIN DocFiles
        /\ \A e \in Range(DocOut.critical) \cup Range(DocOut.important)
                    \cup (IF DocOut.supporting = None THEN {}
                          ELSE Range(DocOut.supporting.some)) :
              e.criticality = DocFiles[e.name].criticality

\* three files rendered, one in each band, at the band limits 9, 7 and 6
C13_Witness ==
    /\ AgentsOk
    /\ Len(CriticalNames) = 1 /\ DocOut.critical[1].criticality = 9
    /\ Len(ImportantNames) = 1 /\ DocOut.important[1].criticality = 7
    /\ Len(SupportingNames) = 1 /\ DocOut.supporting.some[1].criticality = 6

\* the position of a file name in ascending name order
NameIndex(n) == CHOOSE i \in DOMAIN AllNames : AllNames[i] = n

\* the entries descend by criticality, equal criticality by ascending name
OrderedByCriticalityThenName(entries) ==
    \A i, j \in DOMAIN entries :
        i < j =>
            \/ entries[i].criticality > entries[j].criticality
            \/ /\ entries[i].criticality = entries[j].criticality
               /\ NameIndex(entries[i].name) < NameIndex(entries[j].name)

\* C14: within each band the files are listed by descending criticality,
\* and files of equal criticality by ascending file name.
C14_OrderWithinBand ==
    AgentsOk =>
        /\ OrderedByCriticalityThenName(DocOut.critical)
        /\ OrderedByCriticalityThenName(DocOut.important)
        /\ DocOut.supporting # None =>
              OrderedByCriticalityThenName(DocOut.supporting.some)

\* C15: the rendering does not depend on the order the maps are iterated
\* in: generate_agent_files on the same schema text returns the same
\* artifacts under every iteration order of directory_structure and of the
\* file maps.
C15_Deterministic ==
    AgentsDone =>
        \A dirOrder \in IterOrders(DOMAIN TextDirs) :
            \A fileOrder \in FileOrders(TextDirs) :
                generate_agent_files(ag.text.some, dirOrder, fileOrder) = ag.result.some

(***************************************************************************)
(* Properties of what a run leaves behind (Spec)                           *)
(***************************************************************************)
\* the kinds of the documents persisted for project p
PersistedKinds(p) == { r.kind : r \in { x \in docs : x.project_id = p } }

\* the kinds of the six documents DevPlan .. CommunicationSchema
SixDocuments == { "dev_plan", "architecture", "blueprint", "readme", "tree", "schema" }

\* no other call is on the project of call c
SoleRun(c) == \A b \in Calls \ {c} : proj[b] # proj[c]

\* C16 as stated: a run that returned Ok has persisted exactly the six
\* documents DevPlan, Architecture, Blueprint, Readme, DirectoryTree and
\* CommunicationSchema for its project, and no other document.
C16_ExactlySixDocuments ==
    \A c \in Calls :
        pc[c] = "ok" => PersistedKinds(proj[c]) = SixDocuments

\* C16 amended: a run that returned Ok has persisted exactly seven
\* documents for its project: the six documents DevPlan ..
\* CommunicationSchema and the serialised agent files under "agents", one
\* row each, with the content the run saved when no other run is on the
\* project.
C16_SevenDocuments ==
    \A c \in Calls :
        pc[c] = "ok" =>
            /\ PersistedKinds(proj[c]) = SixDocuments \cup { "agents" }
            /\ Cardinality({ x \in docs : x.project_id = proj[c] }) = NumDocs
            /\ SoleRun(c) =>
                  \A k \in 1..NumDocs : Doc(docs, proj[c], DocKind[k]) = SavedContent(c, k)

\* a run has returned Ok with the two agent files of one directory
C16_Witness ==
    \E c \in Calls :
        /\ pc[c] = "ok" /\ SoleRun(c)
        /\ Doc(docs, proj[c], "agents") = [ json |-> out[c][NumDocs].agents ]
        /\ Len(out[c][NumDocs].agents) = 2

\* C17 as stated: after a run returned Ok the repository of its project
\* holds exactly the agent files of the run, no fewer and no other file.
C17_ExactlyAgentFiles ==
    \A c \in Calls :
        pc[c] = "ok" => repos[proj[c]].files = out[c][NumDocs].agents

\* C17 amended: after a run returned Ok the repository of its project
\* holds the README.md of the initial commit create_repository asks for
\* (auto_init), followed by exactly the agent files of the run, each once,
\* in the order of the list, and no other file.
C17_AutoInitThenAgentFiles ==
    \A c \in Calls :
        pc[c] = "ok" =>
            /\ repos[proj[c]].exists
            /\ repos[proj[c]].files = << AutoInitFile >> \o out[c][NumDocs].agents

\* the repository of a completed run on the one-directory schema holds
\* s/README.md and s/AGENT.md after the initial README.md
C17_Witness ==
    \E c \in Calls :
        /\ pc[c] = "ok"
        /\ [ i \in DOMAIN repos[proj[c]].files |-> repos[proj[c]].files[i].path ]
              = << << "README.md" >>, << "s", "/", "README.md" >>,
                   << "s", "/", "AGENT.md" >> >>

\* C18, in its finite form: once the call of a run has returned, Ok or Err,
\* nothing acts on its job any more, so the job has reached its terminal
\* status by then: Completed or Failed, not Pending or Processing.
C18_JobReachesTerminal ==
    \A c \in Calls :
        pc[c] \in { "ok", "err" } =>
            \A j \in JobOf(c) : j.status \in { "Completed", "Failed" }

\* the successful save_document calls of call c, as the kinds saved
SavedKinds(c) ==
    { log[c][i].arg : i \in { n \in DOMAIN log[c] :
                                log[c][n].op = "save_document" /\ log[c][n].ok } }

\* C19: the store holds at most one document per (project, kind), the one
\* a run on the project saved; the save a run is about to make replaces
\* the document under its key, leaving one row with the new content and
\* the other keys as they were; saving the same content a second time
\* changes nothing.
C19_OneDocumentPerKey ==
    /\ \A p \in Projects : \A k \in 1..NumDocs :
          /\ Cardinality(RowsOf(docs, p, DocKind[k])) <= 1
          /\ (\E c \in Calls : proj[c] = p /\ DocKind[k] \in SavedKinds(c)) =>
                \E c \in Calls :
                    /\ proj[c] = p /\ DocKind[k] \in SavedKinds(c)
                    /\ RowsOf(docs, p, DocKind[k])
                          = { [ project_id |-> p, kind |-> DocKind[k],
                                content |-> SavedContent(c, k) ] }
    /\ \A c \in Calls :
          pc[c] = "save" =>
              LET p == proj[c]
                  kind == DocKind[step[c]]
                  x == SavedContent(c, step[c])
                  once == save_document(docs, p, kind, x)
              IN  /\ Doc(once, p, kind) = x
                  /\ Cardinality(RowsOf(once, p, kind)) = 1
                  /\ once \ RowsOf(once, p, kind) = docs \ RowsOf(docs, p, kind)
                  /\ save_document(once, p, kind, x) = once

\* two runs on the same project have both saved the DevPlan document: the
\* later save replaced the earlier one
C19_Witness ==
    \E b, c \in Calls :
        /\ b # c /\ proj[b] = proj[c]
        /\ "dev_plan" \in SavedKinds(b) /\ "dev_plan" \in SavedKinds(c)
        /\ Doc(docs, proj[c], "dev_plan") = out[c][1]

(***************************************************************************)
(* Properties of terminal statuses (SpecRetry)                             *)
(***************************************************************************)
\* this step is retry_step on a terminal job of project p, for some step
RetryTaken(p) ==
    \E j \in DOMAIN jobs : \E k \in 1..NumSteps :
        /\ jobs[j].project_id = p
        /\ JobTerminal(j)
        /\ jobs' = retry_step(jobs, j, k)
        /\ jobs'[j].status = "Processing" /\ jobs'[j].step = GenerationStep[k]
        /\ project_status' = [ project_status EXCEPT ![p] = "processing" ]
        /\ UNCHANGED << pc, proj, step, out, failure, log, cds, docs, repos >>

C22_NoRetry ==
    \A c \in ScaffoldCalls :
        LET att == Attempts(c)
        IN  /\ Len(att) <= Len(cds[c].files)
            /\ \A i, j \in DOMAIN att : i # j => att[i].arg # att[j].arg
            /\ \A f \in DOMAIN cds[c].files :
                  Cardinality({ i \in DOMAIN att : att[i].arg = cds[c].files[f].path }) <= 1
            /\ \A i \in DOMAIN att : ~att[i].ok => \A j \in DOMAIN att : j <= i

\* the commit of the third file failed, after two commits
C22_Witness ==
    \E c \in ScaffoldCalls :
        /\ pc[c] = "err"
        /\ Len(Attempts(c)) = 3 /\ ~Attempts(c)[3].ok
        /\ Len(cds[c].files) > 3

\* the index in the input list of the file the loops are at
FlatIndex(st) == (st.chunk - 1) * BatchSize + st.pos

\* C29: batching does not change what is done: the create_file calls are
\* those of one loop over the input list, file i being the i-th call; when
\* the operation returns Ok every input file has been committed exactly
\* once, in order, for every input length, and an empty input returns Ok
\* with no commit.
C29_BatchingIsFlatLoop ==
    \A c \in ScaffoldCalls :
        LET att == Attempts(c)
            files == cds[c].files
        IN  /\ \A i \in DOMAIN att : i <= Len(files) /\ att[i].arg = files[i].path
            /\ pc[c] = "create_file" =>
                  /\ FlatIndex(cds[c]) = Len(att) + 1
                  /\ FlatIndex(cds[c]) <= Len(files)
            /\ pc[c] = "update_project_status" =>
                  /\ Committed(c) = files
                  /\ Len(att) = Len(files)
                  /\ \A i \in DOMAIN att : att[i].ok
            /\ Len(files) = 0 => pc[c] = "update_project_status" /\ att = << >>

\* an input of two full batches and one more file has been committed whole
C29_Witness ==
    \E c \in ScaffoldCalls :
        /\ pc[c] = "update_project_status"
        /\ Len(cds[c].files) = 2 * BatchSize + 1
        /\ Len(Committed(c)) = 2 * BatchSize + 1

(***************************************************************************)
(* Properties of the data flow between stages (Spec)                       *)
(***************************************************************************)
StepOf(name) == CHOOSE k \in DOMAIN GenerationStep : GenerationStep[k] = name

\* the stages whose outputs each stage consumes, in argument order
ConsumedStages ==
    [ Architecture |-> << "DevPlan" >>,
      Blueprint |-> << "DevPlan", "Architecture" >>,
      Readme |-> << "DevPlan", "Architecture", "Blueprint" >>,
      CommunicationSchema |-> << "DevPlan", "Architecture", "Blueprint", "DirectoryTree" >>,
      AgentFiles |-> << "CommunicationSchema" >> ]

\* C23: within one run every stage is handed the texts the earlier stages
\* of the same run returned, as listed in ConsumedStages, and the document
\* persisted for a stage is the text its provider call returned to the run
\* (read back when no other run writes the project).
C23_OutputsFlowUnchanged ==
    \A c \in Calls :
        /\ \A i \in DOMAIN log[c] :
              (log[c][i].op = "generate"
                  /\ GenerationStep[log[c][i].step] \in DOMAIN ConsumedStages) =>
                  LET want == ConsumedStages[GenerationStep[log[c][i].step]]
                      arg == log[c][i].arg
                  IN  /\ Len(arg) = Len(want)
                      /\ \A j \in DOMAIN want :
                            /\ arg[j] = out[c][StepOf(want[j])]
                            /\ arg[j] \in ProviderTexts(StepOf(want[j]), c)
        /\ \A k \in 1..(NumDocs - 1) :
              (out[c][k] # None /\ step[c] > k /\ SoleRun(c)) =>
                  /\ out[c][k] \in ProviderTexts(k, c)
                  /\ Doc(docs, proj[c], DocKind[k]) = out[c][k]

\* the CommunicationSchema stage of a run has been called with the four
\* texts of the run and its output handed to generate_agent_files
C23_Witness ==
    \E c \in Calls :
        /\ SoleRun(c)
        /\ \E i \in DOMAIN log[c] :
              /\ log[c][i].op = "generate" /\ log[c][i].step = StepOf("AgentFiles")
              /\ log[c][i].arg = << out[c][StepOf("CommunicationSchema")] >>
        /\ Doc(docs, proj[c], "tree") = out[c][StepOf("DirectoryTree")]

(***************************************************************************)
(* Further properties of generate_agent_files (SpecAgents)                 *)
(***************************************************************************)
\* the event_flows map of the schema text handed to generate_agent_files
TextFlows == ag.text.some.value.event_flows

\* C24: the document of a directory has an Event Flows section exactly
\* when event_flows has an entry under the very path of the directory, and
\* the section lists the flows of that entry in their order; an entry under
\* a key that differs by a trailing slash gives no section.
C24_EventFlowsExactKey ==
    AgentsOk =>
        \A i \in DOMAIN AgentsOut :
            LET d == AgentsOut[i].content.header[1]
                section == AgentsOut[i].content.event_flows
            IN  /\ (section # None) = (d \in DOMAIN TextFlows)
                /\ d \in DOMAIN TextFlows => section = Some(TextFlows[d])
                /\ (d \notin DOMAIN TextFlows /\ trim_end_matches(d) \in DOMAIN TextFlows)
                      => section = None

\* directories "s" and "s/" rendered from a schema with flows under "s":
\* the document of "s" has the section with both flows, that of "s/" none
C24_Witness ==
    /\ AgentsOk
    /\ DOMAIN TextDirs = { << "s" >>, << "s", "/" >> }
    /\ DOMAIN TextFlows = { << "s" >> }
    /\ \E i, j \in DOMAIN AgentsOut :
          /\ AgentsOut[i].content.header[1] = << "s" >>
          /\ AgentsOut[i].content.event_flows # None
          /\ Len(AgentsOut[i].content.event_flows.some) = 2
          /\ AgentsOut[j].content.header[1] = << "s", "/" >>
          /\ AgentsOut[j].content.event_flows = None

\* C26: the paths of the agent files generate_agent_files returns are
\* pairwise distinct, also when two directory keys differ only by trailing
\* slashes.
C26_DistinctPaths ==
    AgentsOk =>
        \A i, j \in DOMAIN AgentsOut :
            i # j => AgentsOut[i].path # AgentsOut[j].path

(***************************************************************************)
(* Properties of the documents of a project across runs (Spec)             *)
(***************************************************************************)
\* no run is in progress on project p
NoJobRunning(p) == \A c \in Calls : proj[c] = p => pc[c] \in { "ok", "err" }

\* the agent files document generate_agent_files gives for a schema text
AgentsDocumentOf(schemaDoc) ==
    LET text == SchemaTextOf(schemaDoc)
        r == generate_agent_files(
                 text,
                 SingleOrder(text.value.directory_structure),
                 [ d \in DOMAIN text.value.directory_structure |->
                     SingleOrder(text.value.directory_structure[d].files) ])
    IN  IF r = Err THEN None ELSE Some([ json |-> r.ok ])

\* C25: whenever no run is in progress on a project its documents are
\* mutually consistent: every persisted document of stages 2..6 was
\* generated, by the run that returned it, from the documents now
\* persisted for the stages it consumes, and the agents document is the
\* one generated from the persisted schema.
C25_DocumentsConsistent ==
    \A p \in Projects :
        NoJobRunning(p) =>
            /\ \A k \in 2..(NumDocs - 1) :
                  Doc(docs, p, DocKind[k]) # None =>
                      \A j \in Range(StageInputs[k]) :
                          j >= 1 =>
                              Doc(docs, p, DocKind[j])
                                  = out[Doc(docs, p, DocKind[k]).run][j]
            /\ Doc(docs, p, "agents") # None =>
                  /\ Doc(docs, p, "schema") # None
                  /\ AgentsDocumentOf(Doc(docs, p, "schema"))
                        = Some(Doc(docs, p, "agents"))

\* the CommunicationSchema stage of run c returned text that does not parse
MalformedSchemaDelivered(c) == out[c][6] # None /\ out[c][6].shape = "malformed"

\* C27: when the CommunicationSchema stage returned text that does not
\* parse, the text is saved as the schema document before generate_agent_files
\* fails on it: the run ends in failure (ParseError, in the AgentFiles step)
\* with exactly the six documents dev_plan .. schema persisted, no agents
\* document and no repository.
C27_MalformedSchemaSavedThenFails ==
    \A c \in Calls :
        (MalformedSchemaDelivered(c) /\ step[c] >= NumDocs) =>
            /\ step[c] = NumDocs
            /\ out[c][NumDocs] = None
            /\ pc[c] \in { "generate", "err" }
            /\ pc[c] = "err" =>
                  /\ failure[c].op = "generate" /\ failure[c].error = "ParseError"
                  /\ failure[c].step = NumDocs
            /\ SoleRun(c) =>
                  /\ Doc(docs, proj[c], "schema") = out[c][6]
                  /\ PersistedKinds(proj[c]) = SixDocuments
                  /\ ~repos[proj[c]].exists

\* a run has failed in generate_agent_files on a text that does not parse
C27_Witness ==
    \E c \in Calls :
        /\ MalformedSchemaDelivered(c) /\ SoleRun(c)
        /\ pc[c] = "err" /\ failure[c].error = "ParseError"
        /\ Doc(docs, proj[c], "schema") = out[c][6]

\* the owner lookup of call c returned Err
OwnerLookupFailed(c) == failure[c] # None /\ failure[c].op = "get_project_owner"

\* C28: when get_project_owner fails, as it does for a project that does
\* not exist, start_generation has returned the error and done nothing
\* else: no job queued, no provider called, no document saved, no
\* repository, and the status of the project as it was.
C28_OwnerLookupFailureHasNoEffect ==
    /\ \A c \in Calls :
          OwnerLookupFailed(c) =>
              /\ pc[c] = "err"
              /\ JobOf(c) = {}
              /\ Len(log[c]) = 1 /\ log[c][1].op = "get_project_owner"
              /\ out[c] = NoOutputs
              /\ { r \in docs : r.project_id = MissingProject } = {}
              /\ (SoleRun(c) /\ proj[c] \in Projects) =>
                    /\ PersistedKinds(proj[c]) = {}
                    /\ project_status[proj[c]] = "pending"
                    /\ ~repos[proj[c]].exists
    /\ \A c \in Calls :
          (proj[c] = MissingProject /\ pc[c] # "get_project_owner") => OwnerLookupFailed(c)
    /\ \A j \in Range(jobs) : j.project_id \in Projects

\* start_generation on a project that does not exist has returned
C28_Witness ==
    \E c \in Calls :
        /\ proj[c] = MissingProject /\ pc[c] = "err"
        /\ failure[c].error = "PersistenceError"

(***************************************************************************)
(* Properties of ProjectService (SpecProjects)                             *)
(***************************************************************************)
\* the last call on the projects table was op and returned Ok
LastOk(op) == ps.last # None /\ ps.last.some.op = op /\ ps.last.some.ok

====
